---- MODULE Spec2Model ----
(***************************************************************************)
(* A model of the flow-go-sdk REST handler (client/http/handler.go) and of *)
(* the event model (event.go: Event.Encode, Event.ID, Event.Fingerprint,   *)
(* CalculateEventsHash).                                                   *)
(*                                                                         *)
(* Go strings and byte slices are sequences: a string is a sequence of     *)
(* one-character strings, a byte slice a sequence of numbers 0..255.       *)
(***************************************************************************)
EXTENDS Integers, Sequences, FiniteSets, Bags, TLC

(***************************************************************************)
(* Bounds of the model.                                                    *)
(***************************************************************************)
\* calls that may be blocked in their network round trip at the same time
MaxInFlight == 2
\* the longest JSON list of blocks a server response carries
MaxBlocks == 1

(***************************************************************************)
(* String helpers (package strings).                                       *)
(***************************************************************************)
Letters == {"a","b","c","d","e","f","g","h","i","j","k","l","m","n","o","p","q","r","s","t","u","v","w","x","y","z"}
Digits == {"0","1","2","3","4","5","6","7","8","9"}

\* the characters of the model's strings, in ASCII order
CharOrder == <<"&","-",".","/","0","1","2","3","4","5","6","7","8","9",":","=","?","_","a","b","c","d","e","f","g","h","i","j","k","l","m","n","o","p","q","r","s","t","u","v","w","x","y","z">>

CharCode(c) == CHOOSE i \in 1..Len(CharOrder) : CharOrder[i] = c

\* F applied to the value of v: v is evaluated once, however often F uses it
With(v, F(_)) == CHOOSE r \in {F(x) : x \in {v}} : TRUE

HasPrefix(s, p) == Len(s) >= Len(p) /\ SubSeq(s, 1, Len(p)) = p

\* strings.Index for a one-character separator: the first position of c, 0 when absent
RECURSIVE IndexFrom(_, _, _)
IndexFrom(s, c, i) ==
  IF i > Len(s) THEN 0 ELSE IF s[i] = c THEN i ELSE IndexFrom(s, c, i + 1)

IndexOf(s, c) == IndexFrom(s, c, 1)

Count(s, c) == Cardinality({i \in 1..Len(s) : s[i] = c})

\* the bytewise order of Go strings
RECURSIVE StrLess(_, _)
StrLess(a, b) ==
  IF b = <<>> THEN FALSE
  ELSE IF a = <<>> THEN TRUE
  ELSE IF a[1] # b[1] THEN CharCode(a[1]) < CharCode(b[1])
  ELSE StrLess(Tail(a), Tail(b))

(***************************************************************************)
(* net/url as handler.go uses it: ParseRequestURI, URL.Query, Values.Add,  *)
(* Values.Encode and URL.String.                                           *)
(***************************************************************************)
\* a nil *url.URL
NilURL == [nil |-> TRUE, Scheme |-> <<>>, Opaque |-> <<>>, Host |-> <<>>,
           Path |-> <<>>, ForceQuery |-> FALSE, RawQuery |-> <<>>]

EmptyURL == [NilURL EXCEPT !.nil = FALSE]

\* url.getScheme: [scheme, rest, err]
RECURSIVE getSchemeAt(_, _)
getSchemeAt(rawURL, i) ==
  IF i > Len(rawURL) THEN [scheme |-> <<>>, rest |-> rawURL, err |-> FALSE]
  ELSE IF rawURL[i] \in Letters THEN getSchemeAt(rawURL, i + 1)
  ELSE IF rawURL[i] \in Digits \cup {"+", "-", "."} THEN
    IF i = 1 THEN [scheme |-> <<>>, rest |-> rawURL, err |-> FALSE]
    ELSE getSchemeAt(rawURL, i + 1)
  ELSE IF rawURL[i] = ":" THEN
    IF i = 1 THEN [scheme |-> <<>>, rest |-> <<>>, err |-> TRUE]
    ELSE [scheme |-> SubSeq(rawURL, 1, i - 1),
          rest |-> SubSeq(rawURL, i + 1, Len(rawURL)), err |-> FALSE]
  ELSE [scheme |-> <<>>, rest |-> rawURL, err |-> FALSE]

getScheme(rawURL) == getSchemeAt(rawURL, 1)

\* url.validOptionalPort on the part of the authority from its last colon
validOptionalPort(host) ==
  \A i \in 1..Len(host) :
    host[i] = ":" /\ (\A j \in (i + 1)..Len(host) : host[j] # ":")
      => \A j \in (i + 1)..Len(host) : host[j] \in Digits

\* url.parse past the scheme: the query is cut off, then the rest is an opaque
\* part, or an authority and a path, or a path
parseRest(scheme, rest0) ==
  LET force == rest0 # <<>> /\ rest0[Len(rest0)] = "?" /\ Count(rest0, "?") = 1
      q    == IndexOf(rest0, "?")
      rest == IF force THEN SubSeq(rest0, 1, Len(rest0) - 1)
              ELSE IF q = 0 THEN rest0 ELSE SubSeq(rest0, 1, q - 1)
      rawq == IF force \/ q = 0 THEN <<>> ELSE SubSeq(rest0, q + 1, Len(rest0))
      url  == [EmptyURL EXCEPT !.Scheme = scheme, !.ForceQuery = force, !.RawQuery = rawq]
  IN
  IF ~HasPrefix(rest, <<"/">>) THEN
    IF scheme # <<>> THEN [u |-> [url EXCEPT !.Opaque = rest], err |-> FALSE]
    ELSE [u |-> NilURL, err |-> TRUE]
  ELSE IF scheme # <<>> /\ HasPrefix(rest, <<"/", "/">>) THEN
    LET auth0 == SubSeq(rest, 3, Len(rest))
        i     == IndexOf(auth0, "/")
        auth  == IF i = 0 THEN auth0 ELSE SubSeq(auth0, 1, i - 1)
        path  == IF i = 0 THEN <<>> ELSE SubSeq(auth0, i, Len(auth0))
    IN IF ~validOptionalPort(auth) THEN [u |-> NilURL, err |-> TRUE]
       ELSE [u |-> [url EXCEPT !.Host = auth, !.Path = path], err |-> FALSE]
  ELSE [u |-> [url EXCEPT !.Path = rest], err |-> FALSE]

\* url.parse(rawURL, viaRequest = true): [u, err]; u is NilURL when err
parse(rawURL) ==
  IF rawURL = <<>> THEN [u |-> NilURL, err |-> TRUE]
  ELSE With(getScheme(rawURL), LAMBDA s :
         IF s.err THEN [u |-> NilURL, err |-> TRUE] ELSE parseRest(s.scheme, s.rest))

ParseRequestURI(rawURL) == parse(rawURL)

\* url.QueryEscape on the model's characters
QueryEscape(s) ==
  LET esc(c) == IF c \in Letters \cup Digits \cup {"-", "_", "."} THEN <<c>>
                ELSE IF c = "/" THEN <<"%", "2", "F">>
                ELSE IF c = ":" THEN <<"%", "3", "A">>
                ELSE IF c = "=" THEN <<"%", "3", "D">>
                ELSE IF c = "?" THEN <<"%", "3", "F">>
                ELSE <<"%", "2", "6">>
      F[i \in 0..Len(s)] == IF i = 0 THEN <<>> ELSE F[i - 1] \o esc(s[i])
  IN F[Len(s)]

\* url.Values: a function from its keys to the sequences of their values
EmptyValues == [k \in {} |-> <<>>]

\* Values.Add
Add(v, key, value) ==
  IF key \in DOMAIN v THEN [v EXCEPT ![key] = Append(@, value)]
  ELSE [k \in DOMAIN v \cup {key} |-> IF k = key THEN <<value>> ELSE v[k]]

\* url.ParseQuery, errors dropped as URL.Query drops them; the model's
\* characters hold neither "%" nor "+", so every pair unescapes to itself
RECURSIVE ParseQuery(_)
ParseQuery(query) ==
  IF query = <<>> THEN EmptyValues
  ELSE
    LET a    == IndexOf(query, "&")
        pair == IF a = 0 THEN query ELSE SubSeq(query, 1, a - 1)
        more == IF a = 0 THEN <<>> ELSE SubSeq(query, a + 1, Len(query))
        e    == IndexOf(pair, "=")
        key  == IF e = 0 THEN pair ELSE SubSeq(pair, 1, e - 1)
        val  == IF e = 0 THEN <<>> ELSE SubSeq(pair, e + 1, Len(pair))
        rest == ParseQuery(more)
    IN IF pair = <<>> THEN rest
       ELSE IF key \in DOMAIN rest
            THEN [rest EXCEPT ![key] = <<val>> \o @]
            ELSE [k \in DOMAIN rest \cup {key} |-> IF k = key THEN <<val>> ELSE rest[k]]

\* URL.Query
Query(u) == ParseQuery(u.RawQuery)

\* Values.Encode: "key=value" pairs joined by "&", the keys sorted
RECURSIVE EncodeKeys(_, _)
EncodeKeys(v, keys) ==
  IF keys = {} THEN <<>>
  ELSE
    LET k == CHOOSE x \in keys : \A y \in keys \ {x} : StrLess(x, y)
        one[i \in 0..Len(v[k])] ==
          IF i = 0 THEN <<>>
          ELSE one[i - 1] \o (IF i = 1 THEN <<>> ELSE <<"&">>)
               \o QueryEscape(k) \o <<"=">> \o QueryEscape(v[k][i])
        rest == EncodeKeys(v, keys \ {k})
    IN one[Len(v[k])] \o (IF rest = <<>> THEN <<>> ELSE <<"&">> \o rest)

Encode(v) == EncodeKeys(v, DOMAIN v)

\* URL.String on a non-nil URL (a nil one faults in the caller)
String(u) ==
  (IF u.Scheme # <<>> THEN u.Scheme \o <<":">> ELSE <<>>)
  \o (IF u.Opaque # <<>> THEN u.Opaque
      ELSE (IF (u.Scheme # <<>> \/ u.Host # <<>>) /\ (u.Host # <<>> \/ u.Path # <<>>)
            THEN <<"/", "/">> \o u.Host ELSE <<>>)
           \o (IF u.Path # <<>> /\ u.Path[1] # "/" /\ u.Host # <<>> THEN <<"/">> ELSE <<>>)
           \o u.Path)
  \o (IF u.ForceQuery \/ u.RawQuery # <<>> THEN <<"?">> \o u.RawQuery ELSE <<>>)

(***************************************************************************)
(* encoding/json as handler.go uses it.  A body is a sequence of tokens;   *)
(* json.Unmarshal parses it and stores the value through the destination.  *)
(***************************************************************************)
Tok(t, id, s) == [t |-> t, id |-> id, s |-> s]
\* the JSON text of the object (a block, an account, ...) numbered id
Obj(id) == Tok("object", id, "")
\* a JSON string literal
Str(s) == Tok("string", 0, s)
\* text that is no JSON
Word(s) == Tok("word", 0, s)
LBracket == Tok("[", 0, "")
RBracket == Tok("]", 0, "")
Comma == Tok(",", 0, "")

\* the elements of a non-empty array: object ("," object)*
RECURSIVE jsonElements(_)
jsonElements(toks) ==
  IF toks = <<>> \/ toks[1].t # "object" THEN [ok |-> FALSE, ids |-> <<>>]
  ELSE IF Len(toks) = 1 THEN [ok |-> TRUE, ids |-> <<toks[1].id>>]
  ELSE IF toks[2] # Comma THEN [ok |-> FALSE, ids |-> <<>>]
  ELSE LET r == jsonElements(SubSeq(toks, 3, Len(toks)))
       IN [ok |-> r.ok, ids |-> IF r.ok THEN <<toks[1].id>> \o r.ids ELSE <<>>]

\* the JSON value of a body: [ok, kind, ids, s]
jsonValue(data) ==
  LET bad == [ok |-> FALSE, kind |-> "", ids |-> <<>>, s |-> ""] IN
  IF data = <<>> THEN bad
  ELSE IF Len(data) = 1 /\ data[1].t = "object"
    THEN [ok |-> TRUE, kind |-> "object", ids |-> <<data[1].id>>, s |-> ""]
  ELSE IF Len(data) = 1 /\ data[1].t = "string"
    THEN [ok |-> TRUE, kind |-> "string", ids |-> <<>>, s |-> data[1].s]
  ELSE IF Len(data) >= 2 /\ data[1] = LBracket /\ data[Len(data)] = RBracket THEN
    IF Len(data) = 2 THEN [ok |-> TRUE, kind |-> "array", ids |-> <<>>, s |-> ""]
    ELSE LET r == jsonElements(SubSeq(data, 2, Len(data) - 1))
         IN IF r.ok THEN [ok |-> TRUE, kind |-> "array", ids |-> r.ids, s |-> ""] ELSE bad
  ELSE bad

\* a Go value of the response schemas: a struct decoded from the objects docs,
\* a slice of them, or a string
Val(type, docs, text) == [type |-> type, docs |-> docs, text |-> text]
ZeroValue(type) == Val(type, <<>>, "")
\* what an operation returns beside a non-nil error: nil, or "" for a string
NoResult == Val("nil", <<>>, "")

\* an error is the chain of its messages, the outermost first; nil is <<>>
Frame(msg, arg, code, body) == [msg |-> msg, arg |-> arg, code |-> code, body |-> body]
NoError == <<>>
\* errors.New, fmt.Errorf
NewError(msg, arg, code, body) == <<Frame(msg, arg, code, body)>>
\* errors.Wrap
Wrap(err, msg, arg) == <<Frame(msg, arg, 0, <<>>)>> \o err

\* the destinations handler.go passes as `model`: &x (a pointer) or x itself
Ptr(type) == [ptr |-> TRUE, type |-> type]
NonPtr(type) == [ptr |-> FALSE, type |-> type]

\* json.Unmarshal(data, &model), model an interface{} holding the destination:
\* [err, set, val]; set says whether the caller's variable was written.  A
\* non-pointer in the interface is replaced in get's own copy and the caller's
\* variable stays as it was.
Unmarshal(data, model) ==
  With(jsonValue(data), LAMBDA j :
  LET mismatch == [err |-> NewError("json: cannot unmarshal", <<>>, 0, <<>>),
                   set |-> FALSE, val |-> ZeroValue(model.type)]
  IN
  IF ~j.ok THEN [err |-> NewError("json: syntax error", <<>>, 0, <<>>),
                 set |-> FALSE, val |-> ZeroValue(model.type)]
  ELSE IF ~model.ptr THEN [err |-> NoError, set |-> FALSE, val |-> ZeroValue(model.type)]
  ELSE IF model.type = "string" THEN
    IF j.kind = "string" THEN [err |-> NoError, set |-> TRUE, val |-> Val("string", <<>>, j.s)]
    ELSE mismatch
  ELSE IF model.type = "[]*Block" THEN
    IF j.kind = "array" THEN [err |-> NoError, set |-> TRUE, val |-> Val("[]*Block", j.ids, "")]
    ELSE mismatch
  ELSE IF j.kind = "object" THEN [err |-> NoError, set |-> TRUE, val |-> Val(model.type, j.ids, "")]
  ELSE mismatch)

\* json.Marshal(models.ScriptsBody{Script, Arguments})
MarshalScriptsBody(script, arguments) ==
  LET args[i \in 0..Len(arguments)] ==
        IF i = 0 THEN <<>>
        ELSE args[i - 1] \o (IF i = 1 THEN <<>> ELSE <<Comma>>) \o <<Str(arguments[i])>>
  IN <<Tok("{", 0, ""), Tok("key", 0, "script"), Str(script), Comma,
       Tok("key", 0, "arguments"), LBracket>> \o args[Len(arguments)]
     \o <<RBracket, Tok("}", 0, "")>>

(***************************************************************************)
(* The server and the network, as one HTTP round trip sees them.           *)
(***************************************************************************)
\* the least status code that is a failure
StatusFailure == 400

Statuses == {200, StatusFailure, 404}

\* "[" b1 "," ... "," bn "]"
BlockList(n) ==
  LET F[i \in 0..n] ==
        IF i = 0 THEN <<>> ELSE F[i - 1] \o (IF i = 1 THEN <<>> ELSE <<Comma>>) \o <<Obj(i)>>
  IN <<LBracket>> \o F[n] \o <<RBracket>>

Bodies == {<<Word("oops")>>, <<Obj(1)>>, <<Str("r")>>} \cup {BlockList(n) : n \in 0..MaxBlocks}

\* the outcomes of client.Get / client.Post and of reading the body
Exchange(kind, status, body) == [kind |-> kind, StatusCode |-> status, body |-> body]
\* client.Get returned an error
TransportFailure == Exchange("transport", 0, <<>>)
Exchanges ==
  {TransportFailure}
  \cup {Exchange("read", s, <<>>) : s \in {200, 404}}
  \cup {Exchange("response", s, b) : s \in Statuses, b \in Bodies}

(***************************************************************************)
(* handler.go                                                              *)
(***************************************************************************)
Handler(client, base) == [client |-> client, base |-> base]

NewHandler(baseUrl) == Handler("http.DefaultClient", baseUrl)

\* mustBuildURL, were it to keep the URL it builds as the handler's base
mustBuildURLRebased(hh, path) ==
  With(hh.base \o path, LAMBDA rawURL :
    [u |-> ParseRequestURI(rawURL).u, h |-> Handler(hh.client, rawURL)])

\* Handler.mustBuildURL: the URL, nil when ParseRequestURI fails, and the
\* handler as the call leaves it
mustBuildURL(hh, path) ==
  With(hh.base \o path, LAMBDA rawURL : [u |-> ParseRequestURI(rawURL).u, h |-> hh])

Request(method, url, contentType, body) ==
  [method |-> method, url |-> url, contentType |-> contentType, body |-> body]

\* what get and post return: the requests they issued, the error, and the
\* value stored through the destination; fault is a nil dereference
Transport(reqs, err, set, val) ==
  [fault |-> FALSE, reqs |-> reqs, err |-> err, set |-> set, val |-> val]
Faulted == [fault |-> TRUE, reqs |-> <<>>, err |-> NoError, set |-> FALSE, val |-> NoResult]

\* get, were it to take only the codes above 400 for failures
getAbove(hh, ctx, url, model, res) ==
  IF url.nil THEN Faulted
  ELSE With(String(url), LAMBDA s :
    LET reqs == <<Request("GET", s, <<>>, <<>>)>>
        zero == ZeroValue(model.type)
    IN
    IF res.kind = "transport"
      THEN Transport(reqs, Wrap(NewError("transport", <<>>, 0, <<>>), "HTTP GET %s failed", s),
                     FALSE, zero)
    ELSE IF res.kind = "read"
      THEN Transport(reqs, NewError("read", <<>>, 0, <<>>), FALSE, zero)
    ELSE IF res.StatusCode > StatusFailure
      THEN Transport(reqs, NewError("HTTP GET %s failed, status code: %d, response :%s",
                                    s, res.StatusCode, res.body), FALSE, zero)
    ELSE With(Unmarshal(res.body, model), LAMBDA d :
      IF d.err # NoError
        THEN Transport(reqs, Wrap(d.err, "JSON decoding failed", <<>>), FALSE, zero)
      ELSE Transport(reqs, NoError, d.set, d.val)))

\* Handler.get, with res the outcome of its round trip.  ctx is the blank
\* parameter; a nil url faults in url.String().
get(hh, ctx, url, model, res) ==
  IF url.nil THEN Faulted
  ELSE With(String(url), LAMBDA s :
    LET reqs == <<Request("GET", s, <<>>, <<>>)>>
        zero == ZeroValue(model.type)
    IN
    IF res.kind = "transport"
      THEN Transport(reqs, Wrap(NewError("transport", <<>>, 0, <<>>), "HTTP GET %s failed", s),
                     FALSE, zero)
    ELSE IF res.kind = "read"
      THEN Transport(reqs, NewError("read", <<>>, 0, <<>>), FALSE, zero)
    ELSE IF res.StatusCode >= StatusFailure
      THEN Transport(reqs, NewError("HTTP GET %s failed, status code: %d, response :%s",
                                    s, res.StatusCode, res.body), FALSE, zero)
    ELSE With(Unmarshal(res.body, model), LAMBDA d :
      IF d.err # NoError
        THEN Transport(reqs, Wrap(d.err, "JSON decoding failed", <<>>), FALSE, zero)
      ELSE Transport(reqs, NoError, d.set, d.val)))

ContentTypeJSON == <<"a","p","p","l","i","c","a","t","i","o","n","/","j","s","o","n">>

\* post, were it to honour its context: no request once the context is done
postWithContext(hh, ctx, url, body, model, res) ==
  IF url.nil THEN Faulted
  ELSE IF ctx = "done"
    THEN Transport(<<>>, NewError("context canceled", <<>>, 0, <<>>), FALSE, ZeroValue(model.type))
  ELSE With(String(url), LAMBDA s :
    LET reqs == <<Request("POST", s, ContentTypeJSON, body)>>
        zero == ZeroValue(model.type)
    IN
    IF res.kind = "transport"
      THEN Transport(reqs, Wrap(NewError("transport", <<>>, 0, <<>>), "HTTP POST %s failed", s),
                     FALSE, zero)
    ELSE IF res.kind = "read"
      THEN Transport(reqs, NewError("read", <<>>, 0, <<>>), FALSE, zero)
    ELSE IF res.StatusCode >= StatusFailure
      THEN Transport(reqs, NewError("HTTP POST %s failed, status code: %d, response :%s",
                                    s, res.StatusCode, res.body), FALSE, zero)
    ELSE With(Unmarshal(res.body, model), LAMBDA d :
      IF d.err # NoError
        THEN Transport(reqs, Wrap(d.err, "JSON decoding failed", <<>>), FALSE, zero)
      ELSE Transport(reqs, NoError, d.set, d.val)))

\* Handler.post
post(hh, ctx, url, body, model, res) ==
  IF url.nil THEN Faulted
  ELSE With(String(url), LAMBDA s :
    LET reqs == <<Request("POST", s, ContentTypeJSON, body)>>
        zero == ZeroValue(model.type)
    IN
    IF res.kind = "transport"
      THEN Transport(reqs, Wrap(NewError("transport", <<>>, 0, <<>>), "HTTP POST %s failed", s),
                     FALSE, zero)
    ELSE IF res.kind = "read"
      THEN Transport(reqs, NewError("read", <<>>, 0, <<>>), FALSE, zero)
    ELSE IF res.StatusCode >= StatusFailure
      THEN Transport(reqs, NewError("HTTP POST %s failed, status code: %d, response :%s",
                                    s, res.StatusCode, res.body), FALSE, zero)
    ELSE With(Unmarshal(res.body, model), LAMBDA d :
      IF d.err # NoError
        THEN Transport(reqs, Wrap(d.err, "JSON decoding failed", <<>>), FALSE, zero)
      ELSE Transport(reqs, NoError, d.set, d.val)))

\* the characters of the paths and query keys
PathBlocks == <<"/","b","l","o","c","k","s">>
PathAccounts == <<"/","a","c","c","o","u","n","t","s">>
PathCollections == <<"/","c","o","l","l","e","c","t","i","o","n","s">>
PathScripts == <<"/","s","c","r","i","p","t","s">>
PathTransactions == <<"/","t","r","a","n","s","a","c","t","i","o","n","s">>
KeyHeight == <<"h","e","i","g","h","t">>
KeyBlockHeight == <<"b","l","o","c","k","_","h","e","i","g","h","t">>
KeyBlockID == <<"b","l","o","c","k","_","i","d">>
KeyExpand == <<"e","x","p","a","n","d">>
ValueResult == <<"r","e","s","u","l","t">>

\* what a domain operation leaves: the handler, whether it faulted (a nil
\* dereference), the requests it issued, and the (result, error) it returned
Outcome(hh, reqs, result, err) ==
  [h |-> hh, fault |-> FALSE, reqs |-> reqs, result |-> result, err |-> err]
Panic(hh) == [h |-> hh, fault |-> TRUE, reqs |-> <<>>, result |-> NoResult, err |-> NoError]

\* the variable behind the destination once get or post has returned nil
Stored(model, g) == IF g.set THEN g.val ELSE ZeroValue(model.type)

\* u with its query replaced by q: u.RawQuery = q.Encode()
SetQuery(u, q) == [u EXCEPT !.RawQuery = Encode(q)]

\* Handler.getBlockByID
getBlockByID(hh, ctx, ID, res) ==
  With(mustBuildURL(hh, PathBlocks \o <<"/">> \o ID), LAMBDA b :
  With(get(b.h, ctx, b.u, Ptr("Block"), res), LAMBDA g :
    IF g.fault THEN Panic(b.h)
    ELSE IF g.err # NoError
      THEN Outcome(b.h, g.reqs, NoResult, Wrap(g.err, "get block ID %s failed", ID))
    ELSE Outcome(b.h, g.reqs, Stored(Ptr("Block"), g), NoError)))

\* Handler.getBlockByHeight: blocks itself, not its address, is the
\* destination; a nil u faults in u.Query()
getBlockByHeight(hh, ctx, height, res) ==
  With(mustBuildURL(hh, PathBlocks), LAMBDA b :
    IF b.u.nil THEN Panic(b.h)
    ELSE
      With(SetQuery(b.u, Add(Query(b.u), KeyHeight, height)), LAMBDA u :
      With(get(b.h, ctx, u, NonPtr("[]*Block"), res), LAMBDA g :
        LET blocks == Stored(NonPtr("[]*Block"), g) IN
        IF g.fault THEN Panic(b.h)
        ELSE IF g.err # NoError
          THEN Outcome(b.h, g.reqs, NoResult,
                       Wrap(g.err, "get block by height %s failed", height))
        ELSE IF Len(blocks.docs) = 0
          THEN Outcome(b.h, g.reqs, NoResult, NewError("blocks not found", <<>>, 0, <<>>))
        ELSE Outcome(b.h, g.reqs, blocks, NoError))))

\* Handler.getAccount
getAccount(hh, ctx, address, height, res) ==
  With(mustBuildURL(hh, PathAccounts \o <<"/">> \o address), LAMBDA b :
    IF b.u.nil THEN Panic(b.h)
    ELSE
      With(SetQuery(b.u, Add(Query(b.u), KeyHeight, height)), LAMBDA u :
      With(get(b.h, ctx, u, Ptr("Account"), res), LAMBDA g :
        IF g.fault THEN Panic(b.h)
        ELSE IF g.err # NoError
          THEN Outcome(b.h, g.reqs, NoResult, Wrap(g.err, "get account %s failed", address))
        ELSE Outcome(b.h, g.reqs, Stored(Ptr("Account"), g), NoError))))

\* Handler.getCollection
getCollection(hh, ctx, ID, res) ==
  With(mustBuildURL(hh, PathCollections \o <<"/">> \o ID), LAMBDA b :
  With(get(b.h, ctx, b.u, Ptr("Collection"), res), LAMBDA g :
    IF g.fault THEN Panic(b.h)
    ELSE IF g.err # NoError THEN Outcome(b.h, g.reqs, NoResult, g.err)
    ELSE Outcome(b.h, g.reqs, Stored(Ptr("Collection"), g), NoError)))

\* the loop of executeScriptAt over its query map
RECURSIVE AddAll(_, _)
AddAll(q, query) ==
  IF DOMAIN query = {} THEN q
  ELSE LET k == CHOOSE key \in DOMAIN query : TRUE
       IN AddAll(Add(q, k, query[k]), [key \in DOMAIN query \ {k} |-> query[key]])

\* Handler.executeScriptAt; json.Marshal of a ScriptsBody returns no error
executeScriptAt(hh, ctx, query, script, arguments, res) ==
  With(mustBuildURL(hh, PathScripts), LAMBDA b :
    IF b.u.nil THEN Panic(b.h)
    ELSE
      With(SetQuery(b.u, AddAll(Query(b.u), query)), LAMBDA u :
      With(MarshalScriptsBody(script, arguments), LAMBDA body :
      With(post(b.h, ctx, u, body, Ptr("string"), res), LAMBDA g :
        IF g.fault THEN Panic(b.h)
        ELSE IF g.err # NoError THEN Outcome(b.h, g.reqs, ZeroValue("string"), g.err)
        ELSE Outcome(b.h, g.reqs, Stored(Ptr("string"), g), NoError)))))

\* Handler.executeScriptAtBlockHeight
executeScriptAtBlockHeight(hh, ctx, height, script, arguments, res) ==
  executeScriptAt(hh, ctx, [k \in {KeyBlockHeight} |-> height], script, arguments, res)

\* Handler.executeScriptAtBlockID
executeScriptAtBlockID(hh, ctx, ID, script, arguments, res) ==
  executeScriptAt(hh, ctx, [k \in {KeyBlockID} |-> ID], script, arguments, res)

\* getTransaction, were it to ask for the result whatever includeResult is
getTransactionExpanded(hh, ctx, ID, includeResult, res) ==
  With(mustBuildURL(hh, PathTransactions \o <<"/">> \o ID), LAMBDA b :
    IF b.u.nil THEN Panic(b.h)
    ELSE
      With(SetQuery(b.u, Add(Query(b.u), KeyExpand, ValueResult)), LAMBDA u :
      With(get(b.h, ctx, u, Ptr("Transaction"), res), LAMBDA g :
        IF g.fault THEN Panic(b.h)
        ELSE IF g.err # NoError
          THEN Outcome(b.h, g.reqs, NoResult, Wrap(g.err, "get transaction %s failed", ID))
        ELSE Outcome(b.h, g.reqs, Stored(Ptr("Transaction"), g), NoError))))

\* Handler.getTransaction; with includeResult a nil u faults in u.Query()
getTransaction(hh, ctx, ID, includeResult, res) ==
  With(mustBuildURL(hh, PathTransactions \o <<"/">> \o ID), LAMBDA b :
    IF includeResult /\ b.u.nil THEN Panic(b.h)
    ELSE
      With(IF includeResult THEN SetQuery(b.u, Add(Query(b.u), KeyExpand, ValueResult))
           ELSE b.u, LAMBDA u :
      With(get(b.h, ctx, u, Ptr("Transaction"), res), LAMBDA g :
        IF g.fault THEN Panic(b.h)
        ELSE IF g.err # NoError
          THEN Outcome(b.h, g.reqs, NoResult, Wrap(g.err, "get transaction %s failed", ID))
        ELSE Outcome(b.h, g.reqs, Stored(Ptr("Transaction"), g), NoError))))

\* Handler.sendTransaction: the decoded transaction is dropped
sendTransaction(hh, ctx, transaction, res) ==
  With(mustBuildURL(hh, PathTransactions), LAMBDA b :
  With(post(b.h, ctx, b.u, transaction, Ptr("Transaction"), res), LAMBDA g :
    IF g.fault THEN Panic(b.h) ELSE Outcome(b.h, g.reqs, NoResult, g.err)))

(***************************************************************************)
(* The callers of a handler.                                               *)
(***************************************************************************)
\* the base endpoints a handler is built from: one of the shape of the test
\* network's ("https://host/v1/"), one of the shape of the emulator's (no "//"
\* after its scheme), and an address given without its scheme
Bases == {
  <<"h","t","t","p","s",":","/","/","n","o","d","e","/","v","1","/">>,
  <<"h","t","t","p",":","n","o","d","e",":","8","0","/","v","1">>,
  <<"1","2","7",".","0",".","0",".","1",":","8","0","/","v","1">> }

\* a context is active, or done (cancelled, or past its deadline)
Contexts == {"active", "done"}

Operations == {"getBlockByID", "getBlockByHeight", "getAccount", "getCollection",
               "executeScriptAtBlockHeight", "executeScriptAtBlockID",
               "getTransaction", "sendTransaction"}

\* the arguments of the calls: an identifier or address, a height, a script
\* with its arguments, a serialized transaction
ArgID == <<"a","1">>
ArgHeight == <<"7">>
ArgScript == "s"
ArgArguments == <<"x">>
ArgTransaction == <<Obj(9)>>

Invocation(op, includeResult) == [op |-> op, includeResult |-> includeResult]
Invocations ==
  {Invocation(op, FALSE) : op \in Operations} \cup {Invocation("getTransaction", TRUE)}

\* the operation of a call, run on the outcome res of its round trip
Invoke(hh, ctx, call, res) ==
  CASE call.op = "getBlockByID" -> getBlockByID(hh, ctx, ArgID, res)
    [] call.op = "getBlockByHeight" -> getBlockByHeight(hh, ctx, ArgHeight, res)
    [] call.op = "getAccount" -> getAccount(hh, ctx, ArgID, ArgHeight, res)
    [] call.op = "getCollection" -> getCollection(hh, ctx, ArgID, res)
    [] call.op = "executeScriptAtBlockHeight" ->
         executeScriptAtBlockHeight(hh, ctx, ArgHeight, ArgScript, ArgArguments, res)
    [] call.op = "executeScriptAtBlockID" ->
         executeScriptAtBlockID(hh, ctx, ArgID, ArgScript, ArgArguments, res)
    [] call.op = "getTransaction" -> getTransaction(hh, ctx, ArgID, call.includeResult, res)
    [] call.op = "sendTransaction" -> sendTransaction(hh, ctx, ArgTransaction, res)

\* Invoke on the handlers NewHandler builds, computed once
Handlers == {NewHandler(b) : b \in Bases}
Outcomes ==
  [hh \in Handlers |->
    [c \in Contexts |->
      [call \in Invocations |->
        [res \in Exchanges |-> Invoke(hh, c, call, res)] @@ <<>>] @@ <<>>] @@ <<>>] @@ <<>>
Run(hh, c, call, res) ==
  IF hh \in Handlers THEN Outcomes[hh][c][call][res] ELSE Invoke(hh, c, call, res)

(***************************************************************************)
(* event.go.  A machine int is its 64 bits, as 8 bytes with the highest    *)
(* first (two's complement); the conversions keep the bits they keep in    *)
(* Go.                                                                     *)
(***************************************************************************)
\* the bytes of an Identifier
IdentifierLen == 32

Int64(b5, b6, b7, b8) == <<0, 0, 0, 0, b5, b6, b7, b8>>
\* 2^32 + n, for n < 256
AboveUint32(n) == <<0, 0, 0, 1, 0, 0, 0, n>>

\* uint32(i): the low 32 bits
Uint32(i) == SubSeq(i, 5, 8)
\* uint(i): all 64 bits
Uint(i) == i

RECURSIVE TrimZeros(_)
TrimZeros(b) == IF b = <<>> THEN <<>> ELSE IF b[1] # 0 THEN b ELSE TrimZeros(Tail(b))

\* the bytes of a length, the highest first, none leading zero
RECURSIVE BigEndian(_)
BigEndian(n) == IF n = 0 THEN <<>> ELSE BigEndian(n \div 256) \o <<n % 256>>

\* RLP: a header for a payload of n bytes, short below 56 bytes
rlpHeader(n, short, long) ==
  IF n < 56 THEN <<short + n>>
  ELSE With(BigEndian(n), LAMBDA be : <<long + Len(be)>> \o be)

\* RLP of a byte string (a []byte or a string)
rlpBytes(b) ==
  IF Len(b) = 1 /\ b[1] < 128 THEN b ELSE rlpHeader(Len(b), 128, 183) \o b

\* RLP of an unsigned integer given by its bytes: the bytes without leading zeros
rlpUint(b) == With(TrimZeros(b), LAMBDA t : rlpBytes(t))

\* RLP of a struct: the list of its encoded fields
rlpList(items) ==
  LET F[i \in 0..Len(items)] == IF i = 0 THEN <<>> ELSE F[i - 1] \o items[i]
  IN With(F[Len(items)], LAMBDA payload : rlpHeader(Len(payload), 192, 247) \o payload)

\* mustRLPEncode never fails on the structs of Encode and Fingerprint
mustRLPEncode(items) == rlpList(items)

\* defaultEntityHasher.ComputeHash: SHA3-256, taken as collision-free; a digest
\* is modelled by the message it is the digest of
ComputeHash(b) == b

HexDigits == <<"0","1","2","3","4","5","6","7","8","9","a","b","c","d","e","f">>

\* hex.EncodeToString, as Hash.Hex and Identifier.String use it
Hex(b) ==
  [i \in 1..(2 * Len(b)) |->
     IF i % 2 = 1 THEN HexDigits[(b[(i + 1) \div 2] \div 16) + 1]
     ELSE HexDigits[(b[i \div 2] % 16) + 1]] \o <<>>

\* the value of each hex digit
HexTable == [c \in {HexDigits[i] : i \in 1..16} |-> (CHOOSE i \in 1..16 : HexDigits[i] = c) - 1] @@ <<>>

\* the value of a character as a hex digit; 16 when it is none
HexValue(c) == IF c \in DOMAIN HexTable THEN HexTable[c] ELSE 16

\* hex.DecodeString: [bytes, err]
DecodeString(s) ==
  IF Len(s) % 2 # 0 \/ \E i \in 1..Len(s) : HexValue(s[i]) = 16
  THEN [bytes |-> <<>>, err |-> "hex"]
  ELSE [bytes |-> [i \in 1..(Len(s) \div 2) |->
                     16 * HexValue(s[2 * i - 1]) + HexValue(s[2 * i])] \o <<>>,
        err |-> ""]

Event(Type, TransactionID, TransactionIndex, EventIndex, Value, Payload) ==
  [Type |-> Type, TransactionID |-> TransactionID, TransactionIndex |-> TransactionIndex,
   EventIndex |-> EventIndex, Value |-> Value, Payload |-> Payload]

\* Encode, were it to encode the type of the event too
EventEncodeTyped(e) ==
  mustRLPEncode(<<rlpBytes(e.TransactionID), rlpUint(Uint(e.EventIndex)), rlpBytes(e.Type)>>)

\* Event.Encode
EventEncode(e) == mustRLPEncode(<<rlpBytes(e.TransactionID), rlpUint(Uint(e.EventIndex))>>)

\* Event.ID
ID(e) == Hex(ComputeHash(EventEncode(e)))

\* Fingerprint, were it to leave the payload out
FingerprintNoPayload(e) ==
  mustRLPEncode(<<rlpBytes(e.TransactionID), rlpUint(Uint32(e.EventIndex)), rlpBytes(e.Type),
                  rlpUint(Uint32(e.TransactionIndex))>>)

\* Event.Fingerprint
Fingerprint(e) ==
  mustRLPEncode(<<rlpBytes(e.TransactionID), rlpUint(Uint32(e.EventIndex)), rlpBytes(e.Type),
                  rlpUint(Uint32(e.TransactionIndex)), rlpBytes(e.Payload)>>)

\* a cadence.Event: its fields, and whether jsoncdc can encode them
CadenceEvent(fields, encodable) == [fields |-> fields, encodable |-> encodable]

\* jsoncdc.Encode: [bytes, err]; the bytes are "{" fields "}" and a line end
jsoncdcEncode(value) ==
  IF value.encodable THEN [bytes |-> <<123>> \o value.fields \o <<125, 10>>, err |-> ""]
  ELSE [bytes |-> <<>>, err |-> "jsoncdc"]

FlowEvent(Type, TransactionID, TransactionIndex, EventIndex, Payload) ==
  [Type |-> Type, TransactionID |-> TransactionID, TransactionIndex |-> TransactionIndex,
   EventIndex |-> EventIndex, Payload |-> Payload]

ZeroFlowEvent == FlowEvent(<<>>, [i \in 1..IdentifierLen |-> 0], <<0, 0, 0, 0>>, <<0, 0, 0, 0>>, <<>>)

\* sdkEventToFlow, were it to take the payload the event holds
sdkEventToFlowStoredPayload(event) ==
  With(jsoncdcEncode(event.Value), LAMBDA p :
    IF p.err # "" THEN [event |-> ZeroFlowEvent, err |-> p.err]
    ELSE [event |-> FlowEvent(event.Type, event.TransactionID, Uint32(event.TransactionIndex),
                              Uint32(event.EventIndex), event.Payload),
          err |-> ""])

\* sdkEventToFlow, were it to leave the type out
sdkEventToFlowUntyped(event) ==
  With(jsoncdcEncode(event.Value), LAMBDA p :
    IF p.err # "" THEN [event |-> ZeroFlowEvent, err |-> p.err]
    ELSE [event |-> FlowEvent(<<>>, event.TransactionID, Uint32(event.TransactionIndex),
                              Uint32(event.EventIndex), p.bytes),
          err |-> ""])

\* sdkEventToFlow: [event, err]
sdkEventToFlow(event) ==
  With(jsoncdcEncode(event.Value), LAMBDA p :
    IF p.err # "" THEN [event |-> ZeroFlowEvent, err |-> p.err]
    ELSE [event |-> FlowEvent(event.Type, event.TransactionID, Uint32(event.TransactionIndex),
                              Uint32(event.EventIndex), p.bytes),
          err |-> ""])

\* sdkEventsToFlow: [events, err], and the slice it was given as it leaves it
RECURSIVE sdkEventsToFlowFrom(_, _, _)
sdkEventsToFlowFrom(events, i, flowEvents) ==
  IF i > Len(events) THEN [events |-> flowEvents, err |-> "", es |-> events]
  ELSE With(sdkEventToFlow(events[i]), LAMBDA f :
         IF f.err # "" THEN [events |-> <<>>, err |-> f.err, es |-> events]
         ELSE sdkEventsToFlowFrom(events, i + 1, [flowEvents EXCEPT ![i] = f.event]))

sdkEventsToFlow(events) ==
  sdkEventsToFlowFrom(events, 1, [i \in 1..Len(events) |-> ZeroFlowEvent])

\* flow.EventsMerkleRootHash, taken as the claims take it: it does not fail, and
\* it is collision-free and sensitive to the order of the records; the root is
\* modelled by the encoded records it commits to, in their order
EventsMerkleRootHash(events) ==
  LET F[i \in 0..Len(events)] ==
        IF i = 0 THEN <<>>
        ELSE F[i - 1] \o mustRLPEncode(<<rlpBytes(events[i].TransactionID),
                                         rlpUint(events[i].EventIndex),
                                         rlpBytes(events[i].Type),
                                         rlpUint(events[i].TransactionIndex),
                                         rlpBytes(events[i].Payload)>>)
  IN [id |-> F[Len(events)], err |-> ""]

\* CalculateEventsHash: [hash, err], and the slice it was given as it leaves it
CalculateEventsHash(es) ==
  With(sdkEventsToFlow(es), LAMBDA c :
    IF c.err # "" THEN [hash |-> <<>>, err |-> c.err, es |-> c.es]
    ELSE With(EventsMerkleRootHash(c.events), LAMBDA m :
      IF m.err # "" THEN [hash |-> <<>>, err |-> m.err, es |-> c.es]
      ELSE With(DecodeString(Hex(m.id)), LAMBDA d :
        IF d.err # "" THEN [hash |-> <<>>, err |-> d.err, es |-> c.es]
        ELSE [hash |-> d.bytes, err |-> "", es |-> c.es])))

(***************************************************************************)
(* The events the operations are applied to.                               *)
(***************************************************************************)
\* the longest sequence of events CalculateEventsHash is given
MaxEvents == 2

\* "flow.AccountCreated" and "flow.AccountKeyAdded"
EventAccountCreated == <<102,108,111,119,46,65,99,99,111,117,110,116,67,114,101,97,116,101,100>>
EventAccountAdded == <<102,108,111,119,46,65,99,99,111,117,110,116,75,101,121,65,100,100,101,100>>

Types == {EventAccountCreated, EventAccountAdded}
Identifiers == {[i \in 1..IdentifierLen |-> 0],
                [i \in 1..IdentifierLen |-> IF i = IdentifierLen THEN 1 ELSE 0]}
\* 0, 1 and 2^32
EventIndexes == {Int64(0, 0, 0, 0), Int64(0, 0, 0, 1), AboveUint32(0)}
\* 1 and 2^32
TransactionIndexes == {Int64(0, 0, 0, 1), AboveUint32(0)}
Values == {CadenceEvent(<<>>, TRUE), CadenceEvent(<<49>>, TRUE), CadenceEvent(<<>>, FALSE)}
\* no payload, and the encoding of the event without fields
Payloads == {<<>>, <<123, 125, 10>>}

Events ==
  {Event(t, id, ti, ei, v, p) :
     t \in Types, id \in Identifiers, ti \in TransactionIndexes, ei \in EventIndexes,
     v \in Values, p \in Payloads}

ZeroEvent == Event(<<>>, [i \in 1..IdentifierLen |-> 0], Int64(0, 0, 0, 0), Int64(0, 0, 0, 0),
                   CadenceEvent(<<>>, FALSE), <<>>)

\* the orders in which two events are put in a sequence: 1 is the first event,
\* 2 the second.  An order begins with the first event: the operation is
\* applied to the order and to the order with the events exchanged
Orders == {ord \in UNION {[1..n -> {1, 2}] : n \in 0..MaxEvents} : ord = <<>> \/ ord[1] = 1}

\* the sequence of order ord over the events a and b
Pick(ord, a, b) == [i \in 1..Len(ord) |-> IF ord[i] = 1 THEN a ELSE b]

VARIABLES
  endpoint,  \* the argument NewHandler was called with
  h,         \* the handler
  context,   \* the context the callers hand to their calls
  inflight,  \* the bag of calls blocked in their round trip
  last,      \* the call that returned last, with what it returned
  panicked,  \* a call faulted: the process is gone
  evA,       \* an event
  evB,       \* another event
  called,    \* the operation applied to the events last
  order,     \* the order of the events in the sequences it was given
  slices,    \* the sequences it was given, as it left them
  results    \* what it returned, for each event or sequence

handlerVars == <<endpoint, h, context, inflight, last, panicked>>
eventVars == <<evA, evB, called, order, slices, results>>
vars == <<endpoint, h, context, inflight, last, panicked,
          evA, evB, called, order, slices, results>>

\* a call in its round trip: what was called and the requests issued so far
Pending(call, reqs) == [call |-> call, reqs |-> reqs]

\* a call that returned: the context as it was then, the outcome res of its
\* round trip, and what it returned
Returned(call, c, res, out) ==
  [call |-> call, ctx |-> c, res |-> res, fault |-> out.fault, reqs |-> out.reqs,
   result |-> out.result, err |-> out.err]

NoCall == Returned(Invocation("none", FALSE), "active", TransportFailure, Panic(0))

\* no operation was applied to an event
NoEvents ==
  /\ called = "none"
  /\ order = <<>>
  /\ slices = <<>>
  /\ results = <<>>

\* a handler built by NewHandler, and no events
Init ==
  /\ endpoint \in Bases
  /\ h = NewHandler(endpoint)
  /\ context = "active"
  /\ inflight = EmptyBag
  /\ last = NoCall
  /\ panicked = FALSE
  /\ evA = ZeroEvent
  /\ evB = ZeroEvent
  /\ NoEvents

\* A caller invokes an operation.  The operation builds its URL and issues
\* its request, and blocks in the round trip; a fault ends the process.
Call(call) ==
  /\ ~panicked
  /\ BagCardinality(inflight) < MaxInFlight
  /\ LET out == Run(h, context, call, TransportFailure) IN
       /\ h' = out.h
       /\ IF out.fault \/ out.reqs = <<>>
          THEN /\ last' = Returned(call, context, TransportFailure, out)
               /\ panicked' = out.fault
               /\ inflight' = inflight
          ELSE /\ inflight' = inflight (+) SetToBag({Pending(call, out.reqs)})
               /\ UNCHANGED <<last, panicked>>
  /\ UNCHANGED <<endpoint, context>>
  /\ UNCHANGED eventVars

\* The context is cancelled, or its deadline passes.
Cancel ==
  /\ ~panicked
  /\ context = "active"
  /\ context' = "done"
  /\ UNCHANGED <<endpoint, h, inflight, last, panicked>>
  /\ UNCHANGED eventVars

\* The round trip of a call ends with res, and the operation returns.
Respond(p, res) ==
  /\ ~panicked
  /\ LET out == Run(h, context, p.call, res) IN
       /\ h' = out.h
       /\ last' = Returned(p.call, context, res, [out EXCEPT !.reqs = p.reqs])
       /\ panicked' = out.fault
  /\ inflight' = inflight (-) SetToBag({p})
  /\ UNCHANGED <<endpoint, context>>
  /\ UNCHANGED eventVars

Next ==
  \/ \E call \in Invocations : Call(call)
  \/ Cancel
  \/ \E p \in BagToSet(inflight), res \in Exchanges : Respond(p, res)

Spec == Init /\ [][Next]_vars

(***************************************************************************)
(* The claims about the handler.                                           *)
(***************************************************************************)
\* a call has returned to its caller
HasReturned == last.call.op # "none" /\ ~last.fault

\* what an operation returns for "no result": nil, or "" from the scripts
Empty(result) == result \in {NoResult, ZeroValue("string")}

\* C1, as the specification states it: when the server answers a
\* getBlockByHeight with a success status and a JSON list of blocks, the call
\* returns the "blocks not found" error if the list is empty and the decoded
\* list, with no error, otherwise.
C1_BlocksByHeightDecoded ==
  (/\ HasReturned
   /\ last.call.op = "getBlockByHeight"
   /\ last.res.kind = "response"
   /\ last.res.StatusCode < 400
   /\ jsonValue(last.res.body).kind = "array")
  => IF jsonValue(last.res.body).ids = <<>>
     THEN last.result = NoResult /\ last.err = NewError("blocks not found", <<>>, 0, <<>>)
     ELSE last.result = Val("[]*Block", jsonValue(last.res.body).ids, "") /\ last.err = NoError

\* C2: when the server answers a call of any operation with a status of 400
\* or more, the call returns an error that carries the status code and the
\* body as the server sent it, and no result.
C2_FailureStatusIsError ==
  (/\ HasReturned
   /\ last.res.kind = "response"
   /\ last.res.StatusCode >= 400)
  => /\ \E i \in 1..Len(last.err) :
          last.err[i].code = last.res.StatusCode /\ last.err[i].body = last.res.body
     /\ Empty(last.result)

\* a call of a script was answered 404 with a body that is no JSON
C2_Witness ==
  /\ HasReturned
  /\ last.call.op = "executeScriptAtBlockID"
  /\ last.res = Exchange("response", 404, <<Word("oops")>>)
  /\ last.err # NoError

\* C3, as the specification states it: whatever the base the handler was
\* built from and whatever the server does, a call does not fault, and it
\* returns a result or an error and never both or neither (sendTransaction
\* returns its error only).
C3_ResultOrErrorNeverFault ==
  /\ ~panicked
  /\ last.call.op # "none" =>
       /\ ~last.fault
       /\ last.call.op # "sendTransaction" => (last.err = NoError) # Empty(last.result)

\* C7: a call whose URL was built issues exactly one request, whatever the
\* outcome of the round trip, and what it returns is what it would return with
\* its context active or done.
C7_OneRequestContextInert ==
  HasReturned =>
    /\ Len(last.reqs) = 1
    /\ \A c \in Contexts :
         LET out == Run(h, c, last.call, last.res) IN
           /\ out.reqs = last.reqs
           /\ out.result = last.result
           /\ out.err = last.err

\* a transaction was sent under a context that is done, and the transport failed
C7_Witness ==
  /\ HasReturned
  /\ last.call.op = "sendTransaction"
  /\ last.ctx = "done"
  /\ last.res = TransportFailure
  /\ Len(last.reqs) = 1

\* the URL getTransaction is to request: base "/transactions/" ID, and the
\* query expand=result when the result is asked for
TransactionURL(includeResult) ==
  endpoint \o PathTransactions \o <<"/">> \o ArgID
  \o (IF includeResult THEN <<"?">> \o KeyExpand \o <<"=">> \o ValueResult ELSE <<>>)

\* C8: the request of getTransaction carries the query expand=result exactly
\* when includeResult is true, and no query at all otherwise.
C8_ExpandIffIncludeResult ==
  (HasReturned /\ last.call.op = "getTransaction")
  => /\ last.reqs[1].url = TransactionURL(last.call.includeResult)
     /\ last.call.includeResult <=> Count(last.reqs[1].url, "?") = 1
     /\ ~last.call.includeResult <=> Count(last.reqs[1].url, "?") = 0

\* a transaction was fetched with its result
C8_Witness ==
  /\ HasReturned
  /\ last.call.op = "getTransaction"
  /\ last.call.includeResult
  /\ last.err = NoError
  /\ last.result = Val("Transaction", <<1>>, "")

\* C9: the handler is as NewHandler built it, whatever calls were made and
\* however they interleave.
C9_HandlerUnchanged == h = NewHandler(endpoint)

\* a call has returned while two others are in their round trips
C9_Witness ==
  /\ HasReturned
  /\ BagCardinality(inflight) >= 2

\* two events, and a handler nobody calls
EventInit ==
  /\ evA \in Events
  /\ evB \in Events
  /\ NoEvents
  /\ endpoint = <<>>
  /\ h = NewHandler(endpoint)
  /\ context = "active"
  /\ inflight = EmptyBag
  /\ last = NoCall
  /\ panicked = FALSE

\* The operations on events are functions of their arguments: a behaviour
\* applies one of them, once.

\* Fingerprint is applied to each event.
CallFingerprint ==
  /\ called = "none"
  /\ called' = "Fingerprint"
  /\ results' = <<Fingerprint(evA), Fingerprint(evB)>>
  /\ order' = <<>>
  /\ slices' = <<>>
  /\ UNCHANGED <<evA, evB>>
  /\ UNCHANGED handlerVars

\* ID is applied to each event.
CallID ==
  /\ called = "none"
  /\ called' = "ID"
  /\ results' = <<ID(evA), ID(evB)>>
  /\ order' = <<>>
  /\ slices' = <<>>
  /\ UNCHANGED <<evA, evB>>
  /\ UNCHANGED handlerVars

\* the order with the two events exchanged
Exchanged(ord) == [i \in 1..Len(ord) |-> 3 - ord[i]]

\* CalculateEventsHash is applied to the events in the order ord, and to the
\* same sequence with the two events exchanged.
CallCalculateEventsHash(ord) ==
  /\ called = "none"
  /\ called' = "CalculateEventsHash"
  /\ order' = ord
  /\ LET r1 == CalculateEventsHash(Pick(ord, evA, evB))
         r2 == CalculateEventsHash(Pick(Exchanged(ord), evA, evB))
     IN /\ results' = <<[hash |-> r1.hash, err |-> r1.err], [hash |-> r2.hash, err |-> r2.err]>>
        /\ slices' = <<r1.es, r2.es>>
  /\ UNCHANGED <<evA, evB>>
  /\ UNCHANGED handlerVars

EventNext ==
  \/ CallFingerprint
  \/ CallID
  \/ \E ord \in Orders : CallCalculateEventsHash(ord)

EventSpec == EventInit /\ [][EventNext]_vars

(***************************************************************************)
(* The claims about events.                                                *)
(***************************************************************************)
\* the fields Fingerprint encodes
FingerprintFields == {"TransactionID", "EventIndex", "Type", "TransactionIndex", "Payload"}

\* the fields of FingerprintFields in which the two events differ
Differing == {f \in FingerprintFields : evA[f] # evB[f]}

\* the two events differ in none of the fields fs
AgreeOn(fs) == \A f \in fs : evA[f] = evB[f]

\* C4, as the specification states it: two events that differ in exactly one
\* of TransactionID, EventIndex, Type, TransactionIndex and Payload have
\* different fingerprints, the indices being any machine ints.
C4_AnyChangeChangesFingerprint ==
  (called = "Fingerprint" /\ Cardinality(Differing) = 1 /\ evA.Value = evB.Value)
  => results[1] # results[2]

\* C4, amended: two events that differ in exactly one of TransactionID,
\* EventIndex, Type, TransactionIndex and Payload have different fingerprints
\* when that field is not an index, or is an index whose low 32 bits differ.
C4_FingerprintChanges ==
  (/\ called = "Fingerprint"
   /\ Cardinality(Differing) = 1
   /\ \A f \in Differing \cap {"EventIndex", "TransactionIndex"} :
        SubSeq(evA[f], 5, 8) # SubSeq(evB[f], 5, 8))
  => results[1] # results[2]

\* the fingerprints of two events that differ in their payloads only
C4_Witness ==
  /\ called = "Fingerprint"
  /\ Differing = {"Payload"}
  /\ evA.Value = evB.Value
  /\ results[1] # results[2]

\* C5: the identifier of an event is a function of its TransactionID and its
\* EventIndex: two events that agree on both have the same identifier,
\* whatever their other fields.
C5_IDOfTransactionAndIndex ==
  (called = "ID" /\ AgreeOn({"TransactionID", "EventIndex"})) => results[1] = results[2]

\* the identifiers of two events that agree on TransactionID and EventIndex
\* and on no other field
C5_Witness ==
  /\ called = "ID"
  /\ AgreeOn({"TransactionID", "EventIndex"})
  /\ \A f \in {"Type", "TransactionIndex", "Value", "Payload"} : evA[f] # evB[f]
  /\ results[1] = results[2]
  /\ Len(results[1]) > 2 * IdentifierLen

\* C6, as the specification states it: for two distinct events a and b, the
\* hashes of [a, b] and of [b, a] are both computed and they differ.
C6_OrderChangesHash ==
  (called = "CalculateEventsHash" /\ order = <<1, 2>> /\ evA # evB)
  => /\ results[1].err = ""
     /\ results[2].err = ""
     /\ results[1].hash # results[2].hash

\* the two events differ in what the hash is computed from: the type, the
\* transaction, the low 32 bits of an index, or the encoding of the value
HashedDiffer ==
  \/ ~AgreeOn({"Type", "TransactionID"})
  \/ \E f \in {"EventIndex", "TransactionIndex"} : SubSeq(evA[f], 5, 8) # SubSeq(evB[f], 5, 8)
  \/ jsoncdcEncode(evA.Value).bytes # jsoncdcEncode(evB.Value).bytes

\* C6, amended: for two events a and b whose values can be encoded and which
\* differ in what the hash is computed from, the hashes of [a, b] and of
\* [b, a] are both computed and they differ.
C6_OrderChangesHashOfEncodable ==
  (/\ called = "CalculateEventsHash"
   /\ order = <<1, 2>>
   /\ evA.Value.encodable
   /\ evB.Value.encodable
   /\ HashedDiffer)
  => /\ results[1].err = ""
     /\ results[2].err = ""
     /\ results[1].hash # results[2].hash

\* the hashes of [a, b] and [b, a] for two events that differ in their types only
C6_Witness ==
  /\ called = "CalculateEventsHash"
  /\ order = <<1, 2>>
  /\ evA.Value.encodable
  /\ evA.Type # evB.Type
  /\ AgreeOn({"TransactionID", "EventIndex", "TransactionIndex", "Value", "Payload"})
  /\ results[1].err = ""
  /\ results[1].hash # results[2].hash

\* C10: CalculateEventsHash does not read the Payload of the events it is
\* given (sequences that differ in payloads only have the same hash, or fail
\* alike), and it leaves the sequences as it was given them.
C10_PayloadIgnoredInputsKept ==
  called = "CalculateEventsHash" =>
    /\ slices = <<Pick(order, evA, evB), Pick(Exchanged(order), evA, evB)>>
    /\ AgreeOn({"Type", "TransactionID", "TransactionIndex", "EventIndex", "Value"})
         => results[1] = results[2]

\* the hashes of two sequences of two events that differ in their payloads only
C10_Witness ==
  /\ called = "CalculateEventsHash"
  /\ order = <<1, 2>>
  /\ evA.Payload # evB.Payload
  /\ AgreeOn({"Type", "TransactionID", "TransactionIndex", "EventIndex", "Value"})
  /\ results[1].err = ""
  /\ results[1] = results[2]
  /\ slices[1] = <<evA, evB>>
====
